---- MODULE Spec2Model ----
(***************************************************************************)
(* interval_map<K, V> of src/exercise.cpp: a std::map<K, V> of breakpoints *)
(* with assign(keyBegin, keyEnd, val) and operator[].  K is the test's Key *)
(* (an int compared with <), V the test's Val (a char compared with ==).   *)
(* The key domain numeric_limits<Key>::lowest() .. max() is scaled down to *)
(* Lowest .. MaxKey.  The std::map is a function whose DOMAIN is the set   *)
(* of stored keys; an iterator is the key it points at, end() is End.      *)
(***************************************************************************)
EXTENDS Integers, FiniteSets, Sequences, TLC

Lowest == 0
MaxKey == 4
NumVals == 3

Key == Lowest..MaxKey
Val == 1..NumVals
End == MaxKey + 1

VARIABLES
  m_map,      \* interval_map::m_map, the breakpoints
  tests,      \* the brute-force table of the random tests
  pc,         \* "constructed", "assigned" or "looked" (a call has just run), "ready"
  keyBegin,   \* the arguments of the assign that has just run
  keyEnd,
  val,
  old_map,    \* m_map as it was when that assign was called
  initial,    \* the value the map was constructed with
  query       \* <<key, value>> of the operator[] that has just run, or <<>>

vars == <<m_map, tests, pc, keyBegin, keyEnd, val, old_map, initial, query>>

(* Key::operator< *)
KeyLess(a, b) == a < b

(* Val::operator== *)
ValEq(a, b) == a = b

Min(S) == CHOOSE x \in S : \A y \in S : x <= y
Max(S) == CHOOSE x \in S : \A y \in S : y <= x

(* variant of lower_bound that skips an equal key (upper_bound's test) *)
lower_bound_strict(m, k) ==
  LET S == {x \in DOMAIN m : KeyLess(k, x)}
  IN  IF S = {} THEN End ELSE Min(S)

(* std::map::lower_bound: first element whose key is not less than k *)
lower_bound(m, k) ==
  LET S == {x \in DOMAIN m : ~KeyLess(x, k)}
  IN  IF S = {} THEN End ELSE Min(S)

(* variant of upper_bound that stops at an equal key (lower_bound's test) *)
upper_bound_lb(m, k) == lower_bound(m, k)

(* std::map::upper_bound: first element whose key is greater than k *)
upper_bound(m, k) ==
  LET S == {x \in DOMAIN m : KeyLess(k, x)}
  IN  IF S = {} THEN End ELSE Min(S)

(* variant of prev that decrements end() whatever the iterator is *)
prev_last(m, it) == Max(DOMAIN m)

(* iterator decrement: the element before it (it may be end()) *)
prev(m, it) == Max({x \in DOMAIN m : x < it})

(* variant of next that omits the increment *)
next_stay(m, it) == it

(* iterator increment: the element after it, or end() *)
next(m, it) ==
  LET S == {x \in DOMAIN m : x > it}
  IN  IF S = {} THEN End ELSE Min(S)

(* interval_map::operator[] *)
Lookup(m, key) == m[prev(m, upper_bound(m, key))]

(* std::map::insert(hint, pair): adds the pair unless the key is present *)
insert(m, k, v) ==
  [x \in DOMAIN m \cup {k} |-> IF x \in DOMAIN m THEN m[x] ELSE v]

(* variant of erase that also removes the element at last *)
erase_closed(m, first, last) ==
  [x \in {y \in DOMAIN m : ~(first <= y /\ y <= last)} |-> m[x]]

(* variant of erase that removes everything from first to end() *)
erase_to_end(m, first, last) ==
  [x \in {y \in DOMAIN m : y < first} |-> m[x]]

(* variant of erase that removes nothing *)
erase_none(m, first, last) == m

(* std::map::erase(first, last): removes the elements in [first, last) *)
erase(m, first, last) ==
  [x \in {y \in DOMAIN m : ~(first <= y /\ y < last)} |-> m[x]]

(* variant of the constructor that inserts at max() instead of lowest() *)
interval_map_max(v) == [x \in {MaxKey} |-> v]

(* interval_map::interval_map(val) *)
interval_map(v) == [x \in {Lowest} |-> v]

(* variant of the guard that tests keyEnd < keyBegin *)
isEmpty_swapped(b, e) == KeyLess(e, b)

(* the guard of assign: !(keyBegin < keyEnd) *)
isEmpty(b, e) == ~KeyLess(b, e)

(* variant of assignBegin without the else branch of line 39 *)
assignBegin_noset(m, b, v) ==
  LET beginIt == lower_bound(m, b)
  IN  IF beginIt = End \/ KeyLess(b, beginIt) THEN insert(m, b, v) ELSE m

(* variant of assignBegin that overwrites the entry found by lower_bound *)
(* also when its key is greater than keyBegin                            *)
assignBegin_overwrite(m, b, v) ==
  LET beginIt == lower_bound(m, b)
  IN  IF beginIt = End
      THEN insert(m, b, v)
      ELSE [m EXCEPT ![beginIt] = v]

(* assign, the keyBegin boundary: insert (keyBegin, val) or overwrite *)
assignBegin(m, b, v) ==
  LET beginIt == lower_bound(m, b)
  IN  IF beginIt = End \/ KeyLess(b, beginIt)
      THEN insert(m, b, v)
      ELSE [m EXCEPT ![beginIt] = v]

(* variant of assignEnd that only overwrites an existing entry at keyEnd *)
assignEnd_noinsert(m, endIt, e, endVal) ==
  IF endIt = End \/ KeyLess(e, endIt)
  THEN m
  ELSE [m EXCEPT ![endIt] = endVal]

(* variant of assignEnd that treats max() as a special case: no entry there *)
assignEnd_max(m, endIt, e, endVal) ==
  IF e = MaxKey THEN [x \in DOMAIN m \ {MaxKey} |-> m[x]]
  ELSE IF endIt = End \/ KeyLess(e, endIt)
       THEN insert(m, e, endVal)
       ELSE [m EXCEPT ![endIt] = endVal]

(* assign, the keyEnd boundary: insert (keyEnd, endVal) or overwrite; endIt *)
(* is the iterator taken before the keyBegin boundary was written           *)
assignEnd(m, endIt, e, endVal) ==
  IF endIt = End \/ KeyLess(e, endIt)
  THEN insert(m, e, endVal)
  ELSE [m EXCEPT ![endIt] = endVal]

(* variant of assign that reads endVal after the keyBegin boundary is written *)
assign_late_endVal(m, b, e, v) ==
  IF isEmpty(b, e) THEN m
  ELSE
    LET beginIt == lower_bound(m, b)
        endIt   == lower_bound(m, e)
        m1      == assignBegin(m, b, v)
        endVal  == Lookup(m1, e)
        beginI1 == IF beginIt = End \/ KeyLess(b, beginIt) THEN b ELSE beginIt
        m2      == assignEnd(m1, endIt, e, endVal)
        endI1   == IF endIt = End \/ KeyLess(e, endIt) THEN e ELSE endIt
        beginI2 == next(m2, beginI1)
    IN  IF beginI2 # endI1 THEN erase(m2, beginI2, endI1) ELSE m2

(* interval_map::assign *)
assign(m, b, e, v) ==
  IF isEmpty(b, e) THEN m
  ELSE
    LET endVal  == Lookup(m, e)
        beginIt == lower_bound(m, b)
        endIt   == lower_bound(m, e)
        m1      == assignBegin(m, b, v)
        beginI1 == IF beginIt = End \/ KeyLess(b, beginIt) THEN b ELSE beginIt
        m2      == assignEnd(m1, endIt, e, endVal)
        endI1   == IF endIt = End \/ KeyLess(e, endIt) THEN e ELSE endIt
        beginI2 == next(m2, beginI1)
    IN  IF beginI2 # endI1 THEN erase(m2, beginI2, endI1) ELSE m2

(* the brute-force table of the random tests: one value per key *)
updateTests(t, rangeMin, rangeMax, rangeVal) ==
  [k \in DOMAIN t |->
     IF rangeMin <= k /\ KeyLess(k, rangeMax) THEN rangeVal ELSE t[k]]

(* checkCanonicity: no two consecutive entries hold equal values *)
checkCanonicity(m) ==
  \A k1, k2 \in DOMAIN m :
     (k1 < k2 /\ ~\E k3 \in DOMAIN m : k1 < k3 /\ k3 < k2) => ~ValEq(m[k1], m[k2])

(* checkSize: map().size() *)
size(m) == Cardinality(DOMAIN m)

Init ==
  \E v \in Val :
    /\ m_map = interval_map(v)
    /\ tests = [k \in Key |-> v]
    /\ pc = "constructed"
    /\ keyBegin = Lowest
    /\ keyEnd = Lowest
    /\ val = v
    /\ old_map = interval_map(v)
    /\ initial = v
    /\ query = <<>>

(* a call m.assign(b, e, v), with the table update the random tests make *)
Assign(b, e, v) ==
  /\ pc \in {"constructed", "ready"}
  /\ m_map' = assign(m_map, b, e, v)
  /\ tests' = updateTests(tests, b, e, v)
  /\ pc' = "assigned"
  /\ keyBegin' = b
  /\ keyEnd' = e
  /\ val' = v
  /\ old_map' = m_map
  /\ query' = <<>>
  /\ UNCHANGED initial

(* a call m[key]: operator[] is const, it returns the value and leaves the *)
(* map alone                                                               *)
Index(key) ==
  /\ pc \in {"constructed", "ready"}
  /\ pc' = "looked"
  /\ query' = <<key, Lookup(m_map, key)>>
  /\ old_map' = m_map
  /\ UNCHANGED <<m_map, tests, keyBegin, keyEnd, val, initial>>

(* a call returns: its arguments go out of scope, the map is as it left it *)
Return ==
  /\ pc \in {"assigned", "looked"}
  /\ pc' = "ready"
  /\ keyBegin' = Lowest
  /\ keyEnd' = Lowest
  /\ val' = m_map[Lowest]
  /\ old_map' = m_map
  /\ query' = <<>>
  /\ UNCHANGED <<m_map, tests, initial>>

Next ==
  \/ \E b \in Key, e \in Key, v \in Val : Assign(b, e, v)
  \/ \E key \in Key : Index(key)
  \/ Return

Spec == Init /\ [][Next]_vars

(* a call m.assign(b, e, v) of a non-empty interval *)
AssignRange(b, e, v) ==
  /\ KeyLess(b, e)
  /\ Assign(b, e, v)

(* the calls the claims about two assigns in a row are about: each assign  *)
(* designates a non-empty interval (an empty one changes nothing)          *)
NextRanges ==
  \/ \E b \in Key, e \in Key, v \in Val : AssignRange(b, e, v)
  \/ Return

SpecRanges == Init /\ [][NextRanges]_vars

TypeOK ==
  /\ DOMAIN m_map \subseteq Key
  /\ \A k \in DOMAIN m_map : m_map[k] \in Val
  /\ tests \in [Key -> Val]
  /\ pc \in {"constructed", "assigned", "looked", "ready"}
  /\ keyBegin \in Key /\ keyEnd \in Key /\ val \in Val
  /\ initial \in Val
  /\ query \in {<<>>} \cup (Key \X Val)

(***************************************************************************)
(* The state just before the last call is old_map; its arguments are       *)
(* keyBegin, keyEnd, val; pc = "assigned" once assign has been called.     *)
(***************************************************************************)
Called == pc = "assigned"
CalledNonEmpty == pc = "assigned" /\ KeyLess(keyBegin, keyEnd)

(* C1: canonicity - in every reachable state no two breakpoints that are   *)
(* consecutive in key order carry equal values.                            *)
C1_Canonicity == checkCanonicity(m_map)

(* C2: after assign(b, e, v) with b < e, lookup(k) = v for every key k     *)
(* with b <= k < e.                                                        *)
C2_AssignedRange ==
  CalledNonEmpty =>
    \A k \in Key : (keyBegin <= k /\ k < keyEnd) => ValEq(Lookup(m_map, k), val)

(* C2 witness: the call overwrote the entry at keyBegin and superseded an  *)
(* entry strictly inside the range, both holding another value.            *)
C2_Witness ==
  /\ CalledNonEmpty
  /\ keyBegin \in DOMAIN old_map /\ old_map[keyBegin] # val
  /\ \E k \in DOMAIN old_map : keyBegin < k /\ k < keyEnd /\ old_map[k] # val
  /\ \A k \in Key : (keyBegin <= k /\ k < keyEnd) => Lookup(m_map, k) = val

(* C3: after assign(b, e, v) with b < e, lookup(k) keeps its pre-call      *)
(* value for every key k < b and every key k >= e.                         *)
C3_Frame ==
  CalledNonEmpty =>
    \A k \in Key : (k < keyBegin \/ k >= keyEnd) =>
       Lookup(m_map, k) = Lookup(old_map, k)

(* C3 witness: keyEnd was no breakpoint, its value came from an entry      *)
(* inside the range that the call erased, and it is still the old value.   *)
C3_Witness ==
  /\ CalledNonEmpty
  /\ keyEnd \notin DOMAIN old_map
  /\ \E k \in DOMAIN old_map : keyBegin < k /\ k < keyEnd /\ old_map[k] # val
  /\ Lookup(old_map, keyEnd) # val
  /\ Lookup(m_map, keyEnd) = Lookup(old_map, keyEnd)
  /\ Lowest < keyBegin /\ Lookup(m_map, keyBegin - 1) # val

(* C4: after every assign, lookup(k) equals the brute-force table's value  *)
(* for every key k.                                                        *)
C4_Differential == \A k \in Key : Lookup(m_map, k) = tests[k]

(* C4 witness: after an assign the table holds every value and the lookup  *)
(* agrees with it.                                                         *)
C4_Witness ==
  /\ CalledNonEmpty
  /\ {tests[k] : k \in Key} = Val
  /\ \A k \in Key : Lookup(m_map, k) = tests[k]

(* C5: assign(b, e, v) with !(b < e) leaves the breakpoint sequence        *)
(* unchanged, and so the lookup of every key.                              *)
C5_EmptyNoOp ==
  (Called /\ ~KeyLess(keyBegin, keyEnd)) =>
    /\ m_map = old_map
    /\ \A k \in Key : Lookup(m_map, k) = Lookup(old_map, k)

(* C5 witness: assign(max, max, v) was called on a map of several          *)
(* breakpoints with a value other than the one at max, and nothing changed.*)
C5_Witness ==
  /\ Called
  /\ keyBegin = MaxKey /\ keyEnd = MaxKey
  /\ size(old_map) >= 3
  /\ Lookup(old_map, MaxKey) # val
  /\ m_map = old_map

(* C6: idempotence - calling assign(b, e, v) again right after            *)
(* assign(b, e, v) leaves the breakpoint sequence as the first call left   *)
(* it: same keys, same values, same count.                                 *)
C6_Idempotence ==
  Called => assign(m_map, keyBegin, keyEnd, val) = m_map

(* C6 witness: a non-empty assign has changed a map of several entries,    *)
(* superseding an entry inside the range, and a second call with the same  *)
(* arguments gives the same sequence.                                      *)
C6_Witness ==
  /\ CalledNonEmpty
  /\ m_map # old_map
  /\ \E k \in DOMAIN old_map : keyBegin < k /\ k < keyEnd
  /\ size(m_map) >= 3
  /\ Lookup(m_map, keyEnd) # val
  /\ assign(m_map, keyBegin, keyEnd, val) = m_map

(* the precondition of C7: one value on [b, e] and just before b, and no   *)
(* breakpoint in (b, e]                                                    *)
C7_Pre(m, b, e) ==
  /\ KeyLess(b, e)
  /\ \A k \in Key : (b <= k /\ k <= e) => Lookup(m, k) = Lookup(m, b)
  /\ Lowest < b => Lookup(m, b - 1) = Lookup(m, b)
  /\ \A k \in DOMAIN m : ~(b < k /\ k <= e)

(* C7: restore round trip - in a state where the function has one value s  *)
(* on [b, e] and just before b and no breakpoint lies in (b, e],           *)
(* assign(b, e, v) followed by assign(b, e, s) gives back the same         *)
(* breakpoint sequence.                                                    *)
C7_RestoreRoundTrip ==
  \A b \in Key, e \in Key, v \in Val :
    C7_Pre(m_map, b, e) =>
      assign(assign(m_map, b, e, v), b, e, Lookup(m_map, b)) = m_map

(* C8: predecessor merge - when b < e, b is above the lowest key and the   *)
(* greatest breakpoint below b carried v, assign(b, e, v) leaves no        *)
(* breakpoint with key b.                                                  *)
C8_PredecessorMerge ==
  (/\ CalledNonEmpty
   /\ KeyLess(Lowest, keyBegin)
   /\ ValEq(old_map[Max({k \in DOMAIN old_map : k < keyBegin})], val))
  => keyBegin \notin DOMAIN m_map

(* C9: successor merge - when b < e and the pre-call lookup(e) was v,      *)
(* assign(b, e, v) leaves no breakpoint with key e.                        *)
C9_SuccessorMerge ==
  (CalledNonEmpty /\ ValEq(Lookup(old_map, keyEnd), val))
  => keyEnd \notin DOMAIN m_map

(* C10: collapse - when b < e, the value just before b was v (or b is the  *)
(* lowest key) and the pre-call lookup(e) was v, assign(b, e, v) adds no   *)
(* breakpoint key, does not grow the sequence and removes every breakpoint *)
(* that was in (b, e].                                                     *)
C10_Collapse ==
  (/\ CalledNonEmpty
   /\ (keyBegin = Lowest \/ ValEq(Lookup(old_map, keyBegin - 1), val))
   /\ ValEq(Lookup(old_map, keyEnd), val))
  => /\ DOMAIN m_map \subseteq DOMAIN old_map
     /\ size(m_map) <= size(old_map)
     /\ \A k \in DOMAIN old_map : (keyBegin < k /\ k <= keyEnd) => k \notin DOMAIN m_map

(* C11: uniqueness of the representation - two maps, constructed with any  *)
(* values and driven by any assign calls, whose lookups agree on every key *)
(* have identical breakpoint sequences.  The second map here is the map    *)
(* before the last call, or any map one assign away from construction.     *)
C11_Uniqueness ==
  /\ (\A k \in Key : Lookup(m_map, k) = Lookup(old_map, k)) => m_map = old_map
  /\ \A v0 \in Val, b \in Key, e \in Key, v \in Val :
       LET other == assign(interval_map(v0), b, e, v)
       IN  (\A k \in Key : Lookup(m_map, k) = Lookup(other, k)) => m_map = other

(* C12: floor invariant - in every reachable state the sequence is not     *)
(* empty and holds the lowest key, so for every key the decrement of       *)
(* upper_bound(key) lands on an entry whose key is <= key.                 *)
C12_Floor ==
  /\ DOMAIN m_map # {}
  /\ Lowest \in DOMAIN m_map
  /\ \A k \in Key :
       /\ \E x \in DOMAIN m_map : x < upper_bound(m_map, k)
       /\ prev(m_map, upper_bound(m_map, k)) \in DOMAIN m_map
       /\ ~KeyLess(k, prev(m_map, upper_bound(m_map, k)))

(* C12 witness: an assign that starts at the lowest key with another value *)
(* and supersedes further entries has left the floor entry in place.       *)
C12_Witness ==
  /\ CalledNonEmpty
  /\ keyBegin = Lowest
  /\ old_map[Lowest] # val
  /\ \E k \in DOMAIN old_map : keyBegin < k /\ k < keyEnd
  /\ size(m_map) < size(old_map)
  /\ Lowest \in DOMAIN m_map /\ m_map[Lowest] = val

(* C13: construction - right after interval_map(initial) the sequence is   *)
(* the single entry (lowest, initial) and lookup(k) = initial for every k. *)
C13_Construction ==
  pc = "constructed" =>
    /\ DOMAIN m_map = {Lowest}
    /\ m_map[Lowest] = initial
    /\ \A k \in Key : Lookup(m_map, k) = initial

(* C13 witness: a freshly constructed map, looked up at the highest key.   *)
C13_Witness ==
  /\ pc = "constructed"
  /\ initial = NumVals
  /\ size(m_map) = 1
  /\ Lookup(m_map, MaxKey) = initial

(* the value of the breakpoint of m with the greatest key <= k is x *)
FloorValueIs(m, k, x) ==
  \E f \in DOMAIN m :
    /\ f <= k
    /\ \A y \in DOMAIN m : y <= k => y <= f
    /\ m[f] = x

(* C14: in every reachable state lookup(k) is the value of the breakpoint  *)
(* with the greatest key <= k, for every key k, and a call of lookup       *)
(* returns that value and leaves the breakpoint sequence unchanged.        *)
C14_Lookup ==
  /\ \A k \in Key : FloorValueIs(m_map, k, Lookup(m_map, k))
  /\ pc = "looked" =>
       /\ FloorValueIs(old_map, query[1], query[2])
       /\ m_map = old_map

(* C14 witness: a lookup between two breakpoints, on a map of three or     *)
(* more entries, has returned the lower one's value, which differs from    *)
(* the first and the last entry's.                                         *)
C14_Witness ==
  /\ pc = "looked"
  /\ size(m_map) >= 3
  /\ query[1] \notin DOMAIN m_map
  /\ \E lo \in DOMAIN m_map, hi \in DOMAIN m_map :
       /\ lo < query[1] /\ query[1] < hi
       /\ \A y \in DOMAIN m_map : ~(lo < y /\ y < hi)
       /\ query[2] = m_map[lo]
       /\ m_map[lo] # m_map[hi]
       /\ m_map[lo] # m_map[Lowest]

(* C15: continuity at keyEnd - after assign(b, e, v) with b < e and a      *)
(* pre-call lookup(e) other than v, the sequence has a breakpoint at e     *)
(* whose value is the pre-call lookup(e).                                  *)
C15_Continuity ==
  (CalledNonEmpty /\ ~ValEq(Lookup(old_map, keyEnd), val)) =>
    /\ keyEnd \in DOMAIN m_map
    /\ m_map[keyEnd] = Lookup(old_map, keyEnd)

(* C15 witness: the pre-call lookup(e) came from a breakpoint inside       *)
(* [b, e) that the call erased, its value differs from the value before b, *)
(* and the new breakpoint at e carries it.                                 *)
C15_Witness ==
  /\ CalledNonEmpty
  /\ keyEnd \notin DOMAIN old_map
  /\ \E k \in DOMAIN old_map :
       /\ keyBegin <= k /\ k < keyEnd
       /\ \A y \in DOMAIN old_map : y <= keyEnd => y <= k
       /\ old_map[k] # val
       /\ old_map[k] # old_map[Lowest]
       /\ k \notin DOMAIN m_map \/ k = keyBegin
       /\ keyEnd \in DOMAIN m_map /\ m_map[keyEnd] = old_map[k]

(* C16: on a map that is constant a (one breakpoint), assign(b, e, v) with *)
(* lowest < b < e and v other than a yields exactly the three breakpoints  *)
(* {lowest: a, b: v, e: a}: lookup is a below b, v on [b, e), a from e on. *)
C16_Reference ==
  (/\ CalledNonEmpty
   /\ size(old_map) = 1
   /\ KeyLess(Lowest, keyBegin)
   /\ ~ValEq(val, old_map[Lowest]))
  => /\ DOMAIN m_map = {Lowest, keyBegin, keyEnd}
     /\ size(m_map) = 3
     /\ m_map[Lowest] = old_map[Lowest]
     /\ m_map[keyBegin] = val
     /\ m_map[keyEnd] = old_map[Lowest]
     /\ \A k \in Key :
          Lookup(m_map, k) =
            IF keyBegin <= k /\ k < keyEnd THEN val ELSE old_map[Lowest]

(* C16 witness: the first call on a fresh map, a range with keys on both   *)
(* sides and more than one key inside, has given three breakpoints.        *)
C16_Witness ==
  /\ CalledNonEmpty
  /\ old_map = interval_map(initial)
  /\ val # initial
  /\ Lowest < keyBegin /\ keyBegin + 1 < keyEnd /\ keyEnd < MaxKey
  /\ size(m_map) = 3
  /\ Lookup(m_map, keyBegin + 1) = val
  /\ Lookup(m_map, MaxKey) = initial

(* the scenario of the tests: initial 'a', assign(10, 100, 'b'), then an   *)
(* assign of 'c' from -10; the keys lowest, -10, 9, 10, 100 keep their     *)
(* order as Lowest .. Lowest + 4, the values 'a', 'b', 'c' are 1, 2, 3     *)
C17_Start == (Lowest :> 1) @@ (Lowest + 3 :> 2) @@ (Lowest + 4 :> 1)
C17_NotTouching ==
  (Lowest :> 1) @@ (Lowest + 1 :> 3) @@ (Lowest + 2 :> 1) @@ (Lowest + 3 :> 2)
    @@ (Lowest + 4 :> 1)
C17_Touching ==
  (Lowest :> 1) @@ (Lowest + 1 :> 3) @@ (Lowest + 3 :> 2) @@ (Lowest + 4 :> 1)

(* C17: from {lowest:'a', 10:'b', 100:'a'}, assign(-10, 9, 'c') yields the *)
(* 5 breakpoints {lowest:'a', -10:'c', 9:'a', 10:'b', 100:'a'} and         *)
(* assign(-10, 10, 'c') yields the 4 breakpoints {lowest:'a', -10:'c',     *)
(* 10:'b', 100:'a'}: the breakpoint at keyEnd is reused with its value.    *)
C17_TouchingRanges ==
  (Called /\ old_map = C17_Start /\ keyBegin = Lowest + 1 /\ val = 3) =>
    /\ keyEnd = Lowest + 2 => (m_map = C17_NotTouching /\ size(m_map) = 5)
    /\ keyEnd = Lowest + 3 => (m_map = C17_Touching /\ size(m_map) = 4)

(* C17 witness: the touching assign(-10, 10, 'c') has run on the scenario's *)
(* state and left 4 breakpoints, the one at 10 still 'b'.                   *)
C17_Witness ==
  /\ Called
  /\ old_map = C17_Start
  /\ keyBegin = Lowest + 1 /\ keyEnd = Lowest + 3 /\ val = 3
  /\ size(m_map) = 4
  /\ m_map[Lowest + 3] = 2

(* C18: in every reachable state lookup(max) is the value the map was      *)
(* constructed with: no assign, assign(lowest, max, v) and                 *)
(* assign(max, max, v) included, changes the value at the highest key.     *)
C18_MaxNeverRevalued == Lookup(m_map, MaxKey) = initial

(* C18 witness: assign(lowest, max, v) with another value has replaced a   *)
(* map of several entries; every key below max is v, max is still initial. *)
C18_Witness ==
  /\ Called
  /\ keyBegin = Lowest /\ keyEnd = MaxKey /\ val # initial
  /\ size(old_map) >= 3
  /\ \A k \in Key : k < MaxKey => Lookup(m_map, k) = val
  /\ Lookup(m_map, MaxKey) = initial

(* C19: after assign(b, e, v) with b < e no breakpoint has a key strictly  *)
(* between b and e, and a breakpoint at b, if there is one, carries v.     *)
C19_Superseded ==
  CalledNonEmpty =>
    /\ \A k \in DOMAIN m_map : ~(keyBegin < k /\ k < keyEnd)
    /\ keyBegin \in DOMAIN m_map => ValEq(m_map[keyBegin], val)

(* C19 witness: the call found a breakpoint at b holding another value and *)
(* two or more breakpoints strictly inside the range, and removed them.    *)
C19_Witness ==
  /\ CalledNonEmpty
  /\ keyBegin \in DOMAIN old_map /\ old_map[keyBegin] # val
  /\ Cardinality({k \in DOMAIN old_map : keyBegin < k /\ k < keyEnd}) >= 2
  /\ \A k \in DOMAIN m_map : ~(keyBegin < k /\ k < keyEnd)
  /\ m_map[keyBegin] = val

(* C20: absorption - after assign(b1, e1, v1) with b1 < e1, an             *)
(* assign(b2, e2, v2) with b2 <= b1 and e1 <= e2 yields the breakpoint     *)
(* sequence it yields on the state before the first call.                  *)
C20_Absorption ==
  CalledNonEmpty =>
    \A b2 \in Lowest..keyBegin, e2 \in keyEnd..MaxKey, v2 \in Val :
      assign(m_map, b2, e2, v2) = assign(old_map, b2, e2, v2)

(* C20 witness: the first call changed the map inside a strictly wider     *)
(* range, and a covering assign of another value yields what it yields     *)
(* without the first call.                                                 *)
C20_Witness ==
  /\ CalledNonEmpty
  /\ m_map # old_map
  /\ Lowest < keyBegin /\ keyEnd < MaxKey
  /\ \E v2 \in Val :
       /\ v2 # val
       /\ assign(m_map, keyBegin - 1, keyEnd + 1, v2) # m_map
       /\ assign(m_map, keyBegin - 1, keyEnd + 1, v2)
            = assign(old_map, keyBegin - 1, keyEnd + 1, v2)
       /\ assign(m_map, keyBegin, keyEnd, v2) = assign(old_map, keyBegin, keyEnd, v2)

(* C21: representation frame - assign(b, e, v) with b < e leaves every     *)
(* stored breakpoint with key < b or key > e as it was: none added, none   *)
(* removed, none changed.                                                  *)
C21_RepresentationFrame ==
  CalledNonEmpty =>
    \A k \in Key :
      (k < keyBegin \/ k > keyEnd) =>
        /\ k \in DOMAIN m_map <=> k \in DOMAIN old_map
        /\ k \in DOMAIN old_map => m_map[k] = old_map[k]

(* C21 witness: the call changed the map, overwriting the entry at        *)
(* keyBegin, and entries above keyEnd and between lowest and keyBegin,     *)
(* with values other than val, are as they were.                           *)
C21_Witness ==
  /\ CalledNonEmpty
  /\ m_map # old_map
  /\ keyBegin \in DOMAIN old_map /\ old_map[keyBegin] # val
  /\ \E k \in DOMAIN old_map :
       Lowest < k /\ k < keyBegin /\ old_map[k] # val /\ m_map[k] = old_map[k]
  /\ \E k \in DOMAIN old_map :
       keyEnd < k /\ old_map[k] # val /\ m_map[k] = old_map[k]

(* C22: commutativity - in every step that is a call assign(b1, e1, v1)    *)
(* with b1 < e1, an assign(b2, e2, v2) with e1 <= b2 < e2 on the state     *)
(* after the step yields the breakpoint sequence that the two calls yield  *)
(* in the other order on the state before the step (e1 = b2 included).     *)
C22_Commutativity ==
  [][(pc' = "assigned" /\ KeyLess(keyBegin', keyEnd')) =>
       \A b2 \in keyEnd'..MaxKey, e2 \in keyEnd'..MaxKey, v2 \in Val :
         KeyLess(b2, e2) =>
           assign(m_map', b2, e2, v2)
             = assign(assign(m_map, b2, e2, v2), keyBegin', keyEnd', val')]_vars

(* C22 witness: the adjacent case - the first call changed the map, the    *)
(* second call starts at the first's keyEnd with another value and changes *)
(* the map again, both supersede old entries, and both orders agree.       *)
C22_Witness ==
  /\ CalledNonEmpty
  /\ m_map # old_map
  /\ keyEnd + 1 < MaxKey
  /\ \E k \in DOMAIN old_map : keyBegin < k /\ k < keyEnd
  /\ keyEnd + 1 \in DOMAIN old_map
  /\ \E v2 \in Val :
       /\ v2 # val
       /\ v2 # Lookup(old_map, keyEnd)
       /\ assign(m_map, keyEnd, MaxKey, v2) # m_map
       /\ assign(old_map, keyEnd, MaxKey, v2) # old_map
       /\ assign(m_map, keyEnd, MaxKey, v2)
            = assign(assign(old_map, keyEnd, MaxKey, v2), keyBegin, keyEnd, val)

====
